---- MODULE Spec2Model ----
(***************************************************************************)
(* Authentication core of the CMS backend (src/main.py): registration,     *)
(* login, bearer-token issuance and per-request authentication, over the   *)
(* adminuser collection of the document store.                             *)
(*                                                                         *)
(* Conventions.  Optional[T] is a sequence of length at most one: <<>> is  *)
(* None and <<v>> is the value v.  A Python str is a sequence of one-      *)
(* character strings, so "" is <<>> and split("@") is computed.  Time is   *)
(* counted in minutes since the process started.                           *)
(***************************************************************************)
EXTENDS Integers, Sequences, FiniteSets, TLC

VARIABLES
    store,      \* the adminuser collection: a sequence of documents
    content,    \* documents (files) written by each protected handler
    now,        \* datetime.utcnow(), in minutes
    req,        \* each worker's request in hand and its response
    wallet      \* the token handed out by a direct create_access_token call

vars == <<store, content, now, req, wallet>>

-----------------------------------------------------------------------------
(* Bounds of the model *)

\* how many times the clock advances
MaxTicks == 1
\* how many times the clock advances while one token is followed
MaxTokenTicks == 2
\* how many documents the adminuser collection may hold
MaxDocs == 2
\* how many documents the protected handlers may write in total
MaxWrites == 1

-----------------------------------------------------------------------------
(* Program constants *)

JWT_SECRET == "dev-secret-change"
ALGORITHM == "HS256"
ACCESS_TOKEN_EXPIRE_MINUTES == 60 * 8

None == <<>>
Some(v) == <<v>>

\* Python truthiness of an Optional[str]: None and "" are both falsy
Truthy(opt) == opt # None /\ opt[1] # <<>>

-----------------------------------------------------------------------------
(* Input domains *)

Workers == {1, 2}
\* uvicorn.run(app): one process, one event loop
Loop == {1}

Emails == { <<"a", "@", "x", "@", "y">>, <<"b">> }
Passwords == {"pw1", "pw2"}
RegisterPasswords == {"pw1"}
Names == { None, Some(<<>>), Some(<<"A", "l">>) }
Salts == {"s1"}

\* the request body of POST /auth/register
AdminCreate == [email : Emails, password : RegisterPasswords, name : Names]

\* the form of POST /auth/token
OAuth2PasswordRequestForm == [username : Emails, password : Passwords]

\* the protected handlers and the collection (or upload directory) each writes
Handlers == {"blogpost", "partnerlogo", "casestudy", "media"}

\* the amounts by which the clock advances
TickSteps == {1, ACCESS_TOKEN_EXPIRE_MINUTES}

\* the expires_delta arguments of create_access_token, in minutes (None: omitted)
Deltas == {None, Some(-1), Some(0), Some(1), Some(2)}

-----------------------------------------------------------------------------
(* Password hasher *)

\* pwd_context.hash: a salted bcrypt hash
get_password_hash(password, salt) ==
    [scheme |-> "bcrypt", salt |-> salt, digest |-> <<salt, password>>]

\* pwd_context.verify: re-hash the plain password under the stored salt
verify_password(plain_password, hashed_password) ==
    hashed_password = get_password_hash(plain_password, hashed_password.salt)

-----------------------------------------------------------------------------
(* Token codec *)

\* jwt.encode: the claims signed with the key
jwt_encode(claims, key) == [kind |-> "jwt", claims |-> claims, key |-> key]

\* a string that is no JWT at all
Garbage == [kind |-> "garbage", claims |-> [sub |-> None, exp |-> 0], key |-> ""]

\* the timedelta the expression (expires_delta or timedelta(minutes=...)) yields:
\* None and timedelta(0) are both falsy
EffectiveDelta(expires_delta) ==
    IF expires_delta # None /\ expires_delta[1] # 0
    THEN expires_delta[1]
    ELSE ACCESS_TOKEN_EXPIRE_MINUTES

\* mutant: the lifetime is not added to the issue time
create_access_token_no_delta(sub, expires_delta, t) ==
    jwt_encode([sub |-> sub, exp |-> t], JWT_SECRET)

create_access_token(sub, expires_delta, t) ==
    jwt_encode([sub |-> sub, exp |-> t + EffectiveDelta(expires_delta)], JWT_SECRET)

\* mutant: the signature is not verified
jwt_decode_nosig(token, key, t) ==
    IF token.kind # "jwt" THEN [error |-> "Malformed", claims |-> Garbage.claims]
    ELSE IF token.claims.exp < t THEN [error |-> "Expired", claims |-> Garbage.claims]
    ELSE [error |-> "", claims |-> token.claims]

\* jwt.decode of python-jose: parse, verify the signature, then reject exp < now
jwt_decode(token, key, t) ==
    IF token.kind # "jwt" THEN [error |-> "Malformed", claims |-> Garbage.claims]
    ELSE IF token.key # key THEN [error |-> "BadSignature", claims |-> Garbage.claims]
    ELSE IF token.claims.exp < t THEN [error |-> "Expired", claims |-> Garbage.claims]
    ELSE [error |-> "", claims |-> token.claims]

-----------------------------------------------------------------------------
(* Credential store *)

\* schemas.AdminUser with its field defaults
AdminUser(email, password_hash, name) ==
    [email |-> email, password_hash |-> password_hash, role |-> "admin",
     name |-> name, last_login |-> None, is_active |-> TRUE]

\* collection.find_one({"email": email}): the first matching document, or None
RECURSIVE find_from(_, _, _)
find_from(docs, email, i) ==
    IF i > Len(docs) THEN None
    ELSE IF docs[i].email = email THEN Some(docs[i])
    ELSE find_from(docs, email, i + 1)

find_one(docs, email) == find_from(docs, email, 1)

\* index of the first matching document, 0 when there is none
RECURSIVE index_from(_, _, _)
index_from(docs, email, i) ==
    IF i > Len(docs) THEN 0
    ELSE IF docs[i].email = email THEN i
    ELSE index_from(docs, email, i + 1)

\* mutant: the filter is dropped, every document is updated
update_many(docs, email, t) ==
    [i \in 1..Len(docs) |-> [docs[i] EXCEPT !.last_login = Some(t)]]

\* collection.update_one({"email": email}, {"$set": {"last_login": t}})
update_one(docs, email, t) ==
    LET i == index_from(docs, email, 1) IN
    IF i = 0 THEN docs
    ELSE [docs EXCEPT ![i] = [@ EXCEPT !.last_login = Some(t)]]

\* the stored document of a model: its fields plus the store's _id
Document(model, id) ==
    [f \in (DOMAIN model) \cup {"_id"} |-> IF f = "_id" THEN id ELSE model[f]]

\* create_document(collection, model): insert_one of the model's fields
create_document(docs, model) == Append(docs, Document(model, Len(docs) + 1))

-----------------------------------------------------------------------------
(* String helper *)

\* s.split("@")[0]: the characters before the first "@"
RECURSIVE split_first(_, _)
split_first(s, sep) ==
    IF s = <<>> THEN <<>>
    ELSE IF Head(s) = sep THEN <<>>
    ELSE <<Head(s)>> \o split_first(Tail(s), sep)

-----------------------------------------------------------------------------
(* Requests *)

\* a worker with no request in hand
Idle ==
    [op |-> "none", pc |-> "idle", email |-> None, password |-> None,
     name |-> None, token |-> None, status |-> 0, detail |-> "",
     access_token |-> None, admin |-> None, cause |-> ""]

\* HTTPException(status_code, detail) raised out of a handler
HTTPException(r, status_code, detail) ==
    [r EXCEPT !.pc = "done", !.status = status_code, !.detail = detail]

\* an exception no handler catches: the framework answers 500
Unhandled(r) == HTTPException(r, 500, "Internal Server Error")

\* Token(access_token=token) returned by a handler
TokenResponse(r, token) ==
    [r EXCEPT !.pc = "done", !.status = 200, !.access_token = Some(token)]

\* mutant: payload.name or payload.email, the split forgotten
DisplayName_whole_email(name, email) ==
    IF Truthy(name) THEN name ELSE Some(email)

\* display name stored by register_admin: payload.name or payload.email.split("@")[0]
DisplayName(name, email) ==
    IF Truthy(name) THEN name ELSE Some(split_first(email, "@"))

-----------------------------------------------------------------------------
(* Request authentication *)

\* mutant: the detail names the cause
credentials_exception_leaky(cause) ==
    [status |-> 401,
     detail |-> IF cause = "Expired" THEN "Token expired" ELSE "Could not validate credentials",
     cause |-> cause, admin |-> None]

\* the exception get_current_admin raises; cause is the internal reason, which
\* the response does not carry
credentials_exception(cause) ==
    [status |-> 401, detail |-> "Could not validate credentials",
     cause |-> cause, admin |-> None]

\* AdminUser(**{k: v for k, v in user.items() if k != "_id"})
ResolvedCaller(user) == [k \in (DOMAIN user) \ {"_id"} |-> user[k]]

get_current_admin(token, docs, t) ==
    LET payload == jwt_decode(token, JWT_SECRET, t) IN
    IF payload.error # "" THEN credentials_exception(payload.error)
    ELSE IF payload.claims.sub = None THEN credentials_exception("NoSubject")
    ELSE LET user == find_one(docs, payload.claims.sub[1]) IN
         IF user = None THEN credentials_exception("UnknownSubject")
         ELSE [status |-> 200, detail |-> "", cause |-> "",
               admin |-> Some(ResolvedCaller(user[1]))]

\* oauth2_scheme: no bearer token in the request
NotAuthenticated ==
    [status |-> 401, detail |-> "Not authenticated", cause |-> "Absent", admin |-> None]

\* Depends(get_current_admin) over Depends(oauth2_scheme)
Authenticate(presented, docs, t) ==
    IF presented = None THEN NotAuthenticated
    ELSE get_current_admin(presented[1], docs, t)

-----------------------------------------------------------------------------
(* State *)

TotalWrites == content["blogpost"] + content["partnerlogo"]
               + content["casestudy"] + content["media"]

InFlight(pcs) == Cardinality({q \in Workers : req[q].pc \in pcs})

\* one event loop: a handler without an await runs to its end before the next starts
Quiet == \A q \in Workers : req[q].pc = "idle"

Ticks == (now \div ACCESS_TOKEN_EXPIRE_MINUTES) + (now % ACCESS_TOKEN_EXPIRE_MINUTES)

\* the Authorization header a client can send: none, a string that is no JWT, or
\* a JWT with any subject and expiry, signed with the process secret (whose
\* fallback value is in the source) or with another key
Presentable ==
    {None, Some(Garbage)}
    \cup { Some(jwt_encode([sub |-> s, exp |-> e], k)) :
             s \in {None} \cup {Some(m) : m \in Emails},
             e \in {now - 1, now, now + ACCESS_TOKEN_EXPIRE_MINUTES},
             k \in {JWT_SECRET, "attacker-key"} }

Init ==
    /\ store = <<>>
    /\ content = [h \in Handlers |-> 0]
    /\ now = 0
    /\ req = [p \in Workers |-> Idle]
    /\ wallet = None

-----------------------------------------------------------------------------
(* POST /auth/register *)

\* lines 81-82: the existence check
register_admin_lookup(p, payload) ==
    /\ req[p].pc = "idle"
    /\ LET r == [Idle EXCEPT !.op = "register", !.email = Some(payload.email),
                             !.password = Some(payload.password), !.name = payload.name]
       IN IF find_one(store, payload.email) # None
          THEN req' = [req EXCEPT ![p] = HTTPException(r, 400, "Email already registered")]
          ELSE /\ Len(store) + InFlight({"insert"}) < MaxDocs
               /\ req' = [req EXCEPT ![p] = [r EXCEPT !.pc = "insert"]]
    /\ UNCHANGED <<store, content, now, wallet>>

\* lines 83-86: hash, insert, issue the token.  Whether the store refuses a
\* second document with the same email (a unique index) is its configuration.
register_admin_insert(p, salt, unique) ==
    /\ req[p].pc = "insert"
    /\ LET r == req[p]
           hashed == get_password_hash(r.password[1], salt)
           user == AdminUser(r.email[1], hashed, DisplayName(r.name, r.email[1]))
       IN IF unique /\ find_one(store, r.email[1]) # None
          THEN /\ req' = [req EXCEPT ![p] = Unhandled(r)]
               /\ store' = store
          ELSE /\ store' = create_document(store, user)
               /\ req' = [req EXCEPT ![p] =
                            TokenResponse(r, create_access_token(r.email, None, now))]
    /\ UNCHANGED <<content, now, wallet>>

-----------------------------------------------------------------------------
(* POST /auth/token *)

\* mutant: the login attempt is recorded before the credentials are checked
login_lookup_touch(p, form_data) ==
    /\ req[p].pc = "idle"
    /\ LET r == [Idle EXCEPT !.op = "login", !.email = Some(form_data.username),
                             !.password = Some(form_data.password)]
           user == find_one(store, form_data.username)
       IN IF user = None \/ ~verify_password(form_data.password, user[1].password_hash)
          THEN /\ req' = [req EXCEPT ![p] = HTTPException(r, 400, "Incorrect email or password")]
               /\ store' = update_one(store, form_data.username, now)
          ELSE /\ req' = [req EXCEPT ![p] =
                            [r EXCEPT !.pc = "update",
                                      !.token = Some(create_access_token(Some(user[1].email), None, now))]]
               /\ store' = store
    /\ UNCHANGED <<content, now, wallet>>

\* lines 91-94: lookup, verify, create the token
login_lookup(p, form_data) ==
    /\ req[p].pc = "idle"
    /\ LET r == [Idle EXCEPT !.op = "login", !.email = Some(form_data.username),
                             !.password = Some(form_data.password)]
           user == find_one(store, form_data.username)
       IN IF user = None \/ ~verify_password(form_data.password, user[1].password_hash)
          THEN req' = [req EXCEPT ![p] = HTTPException(r, 400, "Incorrect email or password")]
          ELSE req' = [req EXCEPT ![p] =
                         [r EXCEPT !.pc = "update",
                                   !.token = Some(create_access_token(Some(user[1].email), None, now))]]
    /\ UNCHANGED <<store, content, now, wallet>>

\* lines 95-96: record last_login, return the token; update_one raises when
\* the store cannot be reached
login_update(p, update_fails) ==
    /\ req[p].pc = "update"
    /\ LET r == req[p] IN
       IF update_fails
       THEN /\ store' = store
            /\ req' = [req EXCEPT ![p] = Unhandled(r)]
       ELSE /\ store' = update_one(store, r.email[1], now)
            /\ req' = [req EXCEPT ![p] = TokenResponse(r, r.token[1])]
    /\ UNCHANGED <<content, now, wallet>>

-----------------------------------------------------------------------------
(* Protected handlers: POST /blog, /partners, /cases, /media/upload *)

\* the dependency: admin = Depends(get_current_admin)
protected_auth(p, h, presented) ==
    /\ req[p].pc = "idle"
    /\ LET res == Authenticate(presented, store, now)
           r == [Idle EXCEPT !.op = h, !.token = presented, !.cause = res.cause]
       IN IF res.status # 200
          THEN req' = [req EXCEPT ![p] = HTTPException(r, res.status, res.detail)]
          ELSE /\ TotalWrites + InFlight({"handler"}) < MaxWrites
               /\ req' = [req EXCEPT ![p] = [r EXCEPT !.pc = "handler", !.admin = res.admin]]
    /\ UNCHANGED <<store, content, now, wallet>>

\* the handler body: create_document (or the file write), then {"ok": True}
protected_write(p) ==
    /\ req[p].pc = "handler"
    /\ content' = [content EXCEPT ![req[p].op] = @ + 1]
    /\ req' = [req EXCEPT ![p] = [req[p] EXCEPT !.pc = "done", !.status = 200]]
    /\ UNCHANGED <<store, now, wallet>>

-----------------------------------------------------------------------------
(* Environment *)

\* the response has been sent; the worker takes the next request
Finish(p) ==
    /\ req[p].pc = "done"
    /\ req' = [req EXCEPT ![p] = Idle]
    /\ UNCHANGED <<store, content, now, wallet>>

Tick(d, bound) ==
    /\ Ticks < bound
    /\ now' = now + d
    /\ UNCHANGED <<store, content, req, wallet>>

-----------------------------------------------------------------------------
(* Specifications *)

\* a single worker process, as uvicorn.run(app) starts it: handlers are serial
Next ==
    \/ \E p \in Loop, payload \in AdminCreate : Quiet /\ register_admin_lookup(p, payload)
    \/ \E p \in Loop, salt \in Salts, unique \in BOOLEAN : register_admin_insert(p, salt, unique)
    \/ \E p \in Loop, form_data \in OAuth2PasswordRequestForm : Quiet /\ login_lookup(p, form_data)
    \/ \E p \in Loop, update_fails \in BOOLEAN : login_update(p, update_fails)
    \/ \E p \in Loop, h \in Handlers, presented \in Presentable : Quiet /\ protected_auth(p, h, presented)
    \/ \E p \in Loop : protected_write(p)
    \/ \E p \in Loop : Finish(p)
    \/ Tick(1, MaxTicks)

Spec == Init /\ [][Next]_vars

\* several worker processes over the same store: their store operations interleave
NextWorkers ==
    \/ \E p \in Workers, payload \in AdminCreate : register_admin_lookup(p, payload)
    \/ \E p \in Workers, salt \in Salts, unique \in BOOLEAN : register_admin_insert(p, salt, unique)
    \/ \E p \in Workers, form_data \in OAuth2PasswordRequestForm : login_lookup(p, form_data)
    \/ \E p \in Workers, update_fails \in BOOLEAN : login_update(p, update_fails)
    \/ \E p \in Workers : Finish(p)

SpecWorkers == Init /\ [][NextWorkers]_vars

-----------------------------------------------------------------------------
(* The token codec on its own: create_access_token with any expires_delta *)

\* the document register_admin stores for a payload
Registered(docs, payload, salt) ==
    create_document(docs,
        AdminUser(payload.email, get_password_hash(payload.password, salt),
                  DisplayName(payload.name, payload.email)))

\* adminuser collections that registrations leave: empty, one account, two accounts
TokenStores ==
    {<<>>}
    \cup { Registered(<<>>, a, "s1") : a \in AdminCreate }
    \cup { Registered(Registered(<<>>, a, "s1"), b, "s1") :
             a \in {x \in AdminCreate : x.email = <<"b">> /\ x.name = None},
             b \in {x \in AdminCreate : x.email # <<"b">> /\ x.name = None} }

InitToken ==
    /\ store \in TokenStores
    /\ content = [h \in Handlers |-> 0]
    /\ now = 0
    /\ req = [p \in Workers |-> Idle]
    /\ wallet = None

\* a call create_access_token({"sub": email}, expires_delta); the wallet keeps
\* the token with the arguments and the time of the call
token_issue(email, expires_delta) ==
    /\ Quiet
    /\ wallet' = Some([token |-> create_access_token(Some(email), expires_delta, now),
                       sub |-> email, expires_delta |-> expires_delta, at |-> now])
    /\ UNCHANGED <<store, content, now, req>>

\* the issued token sent as the bearer token of a protected request
token_present(p, h) ==
    /\ wallet # None
    /\ Quiet
    /\ protected_auth(p, h, Some(wallet[1].token))

NextToken ==
    \/ \E email \in Emails, expires_delta \in Deltas : token_issue(email, expires_delta)
    \/ \E p \in Loop, h \in Handlers : token_present(p, h)
    \/ \E p \in Loop : protected_write(p)
    \/ \E p \in Loop : Finish(p)
    \/ \E d \in TickSteps : Tick(d, MaxTokenTicks)

SpecToken == InitToken /\ [][NextToken]_vars

-----------------------------------------------------------------------------
(* Claims *)

\* the documents of the collection with the given email
WithEmail(docs, email) == {i \in 1..Len(docs) : docs[i].email = email}

\* C1: of two register requests with the same email being handled at once,
\* answered under any interleaving of their lookups and inserts, one gets 200
\* and the other 400 "Email already registered" (or, the email being taken
\* before both, both get 400), and the store holds exactly one document with
\* that email.
C1_ConcurrentRegisterUnique ==
    \A p, q \in Workers :
        (/\ p # q
         /\ req[p].op = "register" /\ req[p].pc = "done"
         /\ req[q].op = "register" /\ req[q].pc = "done"
         /\ req[p].email = req[q].email)
        => /\ {req[p].status, req[q].status} \subseteq {200, 400}
           /\ ~(req[p].status = 200 /\ req[q].status = 200)
           /\ Cardinality(WithEmail(store, req[p].email[1])) = 1

\* C2: a login whose credentials verified (its token was created) returns that
\* token, whether or not the last_login update succeeded.
C2_LoginSurvivesUpdateFailure ==
    \A p \in Workers :
        (req[p].op = "login" /\ req[p].pc = "done" /\ req[p].token # None)
        => (req[p].status = 200 /\ req[p].access_token = req[p].token)

\* C3: the caller get_current_admin resolves carries no password_hash field.
C3_ResolvedCallerHasNoHash ==
    \A p \in Workers :
        req[p].admin # None => "password_hash" \notin DOMAIN req[p].admin[1]

\* a step in which worker p's request passes (or fails) request authentication
AuthStep(p) == req[p].pc = "idle" /\ req'[p].op \in Handlers

\* C4: a token issued with a supplied ttl carries exp = issue time + ttl, for
\* a positive, zero or negative ttl; request authentication accepts the
\* issued token only while exp > now, and never when the ttl was not positive.
C4_IssuedExpiry ==
    [][ /\ (wallet' # None /\ wallet'[1].expires_delta # None)
           => wallet'[1].token.claims.exp = wallet'[1].at + wallet'[1].expires_delta[1]
        /\ \A p \in Workers :
             (/\ wallet # None
              /\ AuthStep(p)
              /\ req'[p].token = Some(wallet[1].token)
              /\ req'[p].admin # None)
             => /\ wallet[1].token.claims.exp > now
                /\ (wallet[1].expires_delta # None => wallet[1].expires_delta[1] > 0)
      ]_vars

\* C5: a login answered 400 (unknown email or wrong password) leaves the
\* adminuser store, and everything else the server keeps, as it was, and
\* carries no token.
C5_FailedLoginChangesNothing ==
    [][ \A p \in Workers :
          (req[p].pc = "idle" /\ req'[p].op = "login" /\ req'[p].status = 400)
          => /\ store' = store
             /\ content' = content
             /\ req'[p].token = None
             /\ req'[p].access_token = None
      ]_vars

\* C5 witness: a wrong password for a registered email, and an unknown email
\* while another account exists, have each been answered 400
C5_Witness ==
    \E p \in Workers :
        /\ req[p].op = "login" /\ req[p].pc = "done" /\ req[p].status = 400
        /\ find_one(store, req[p].email[1]) # None
        /\ Len(store) = 2

\* the position of the first "@" of s, Len(s) + 1 when it has none
FirstAt(s) ==
    IF \E i \in 1..Len(s) : s[i] = "@"
    THEN CHOOSE i \in 1..Len(s) : s[i] = "@" /\ \A j \in 1..(i - 1) : s[j] # "@"
    ELSE Len(s) + 1

LocalPart(s) == SubSeq(s, 1, FirstAt(s) - 1)

\* the display name the claim as written expects: the given name, or the local
\* part when none is given
NameAsWritten(name, email) == IF name # None THEN name ELSE Some(LocalPart(email))

\* the display name when an empty given name counts as none
NameNonEmpty(name, email) ==
    IF name # None /\ name[1] # <<>> THEN name ELSE Some(LocalPart(email))

\* what a step of worker p's register request must do, given the display name
\* ExpectedName(name, email) prescribes
RegisterStepOK(p, ExpectedName(_, _)) ==
    /\ (req[p].pc = "idle" /\ req'[p].op = "register")
       => /\ store' = store
          /\ req'[p].access_token = None
          /\ IF WithEmail(store, req'[p].email[1]) # {}
             THEN /\ req'[p].pc = "done"
                  /\ req'[p].status = 400
             ELSE req'[p].pc = "insert"
    /\ (req[p].pc = "insert" /\ req'[p].pc = "done")
       => LET email == req[p].email[1]
              tok == req'[p].access_token
          IN /\ Len(store') = Len(store) + 1
             /\ SubSeq(store', 1, Len(store)) = store
             /\ LET d == store'[Len(store')]
                IN /\ d.email = email
                   /\ d.role = "admin"
                   /\ d.is_active = TRUE
                   /\ d.last_login = None
                   /\ d.name = ExpectedName(req[p].name, email)
             /\ req'[p].status = 200
             /\ tok # None
             /\ tok[1].kind = "jwt" /\ tok[1].key = JWT_SECRET
             /\ tok[1].claims.sub = Some(email)
    /\ (req'[p].op = "register" /\ req'[p].pc = "done" /\ req'[p].status # 200)
       => store' = store /\ req'[p].access_token = None

\* C6 as written: a register request for a taken email is answered 400, stores
\* nothing and issues no token; one for a new email appends exactly one
\* document (that email, role "admin", is_active, no last_login, display name
\* = the given name or, none given, the email before its first "@") and
\* returns a token whose subject is the email.
C6_AsWritten == [][ \A p \in Workers : RegisterStepOK(p, NameAsWritten) ]_vars

\* C6 amended: the same, the display name being the given name when it is
\* not empty, and the email before its first "@" when the name is absent or "".
C6_RegisterPersistsOne == [][ \A p \in Workers : RegisterStepOK(p, NameNonEmpty) ]_vars

\* C6 witness: registrations with an empty name and with a name have been
\* stored, and a third for a taken email has been answered 400
C6_Witness ==
    /\ Len(store) = 2
    /\ \E i \in 1..2 : store[i].email = <<"a", "@", "x", "@", "y">> /\ store[i].name = Some(<<"a">>)
    /\ \E i \in 1..2 : store[i].name = Some(<<"A", "l">>)
    /\ \E p \in Workers : /\ req[p].op = "register" /\ req[p].pc = "done"
                          /\ req[p].status = 400 /\ req[p].name = Some(<<>>)

\* the responses' internal causes that request authentication distinguishes
FailureCauses == {"Malformed", "BadSignature", "Expired", "NoSubject", "UnknownSubject"}

\* what a client sees of a response
Visible(r) == [status |-> r.status, detail |-> r.detail]

\* a presented token that request authentication must reject, whatever the reason
Invalid(tok) ==
    \/ tok.kind # "jwt"
    \/ tok.key # JWT_SECRET
    \/ tok.claims.exp < now
    \/ tok.claims.sub = None
    \/ WithEmail(store, tok.claims.sub[1]) = {}

\* C7: every rejection by get_current_admin looks the same to the client:
\* status 401, detail "Could not validate credentials", whichever of malformed,
\* bad signature, expired, no subject or unknown subject was the cause.
C7_UniformRejection ==
    /\ \A p \in Workers :
         (req[p].pc = "done" /\ req[p].op \in Handlers /\ req[p].token # None
          /\ req[p].status # 200)
         => /\ req[p].cause \in FailureCauses
            /\ Visible(req[p]) = [status |-> 401, detail |-> "Could not validate credentials"]
    /\ \A a \in Presentable \ {None} :
         Invalid(a[1])
         => Visible(get_current_admin(a[1], store, now))
            = [status |-> 401, detail |-> "Could not validate credentials"]

\* C7 witness: a request with an expired, well-signed token of a registered
\* subject has been rejected, in a state where each of the five causes is the
\* outcome of some token a client can present
C7_Witness ==
    /\ \E p \in Workers :
         /\ req[p].pc = "done" /\ req[p].cause = "Expired" /\ req[p].status = 401
         /\ req[p].token[1].claims.sub # None
         /\ WithEmail(store, req[p].token[1].claims.sub[1]) # {}
    /\ FailureCauses \subseteq
         {get_current_admin(t[1], store, now).cause : t \in Presentable \ {None}}

\* the lifetime an expires_delta argument asks for: the default when omitted
Lifetime(expires_delta) ==
    IF expires_delta = None THEN ACCESS_TOKEN_EXPIRE_MINUTES ELSE expires_delta[1]

\* C8: the token issued for an email, presented before its ttl has elapsed
\* while the account exists, is accepted and resolves to the account with
\* exactly that email.
C8_RoundTrip ==
    [][ \A p \in Workers :
          (/\ wallet # None
           /\ AuthStep(p)
           /\ req'[p].token = Some(wallet[1].token)
           /\ now < wallet[1].at + Lifetime(wallet[1].expires_delta)
           /\ WithEmail(store, wallet[1].sub) # {})
          => /\ req'[p].pc = "handler"
             /\ req'[p].admin # None
             /\ req'[p].admin[1].email = wallet[1].sub
      ]_vars

\* C8 witness: a token issued for two minutes was accepted one minute later,
\* with another account in the store
C8_Witness ==
    /\ wallet # None
    /\ wallet[1].expires_delta = Some(2) /\ wallet[1].at = 0 /\ now = 1
    /\ Len(store) = 2 /\ store[1].email # wallet[1].sub
    /\ \E p \in Workers :
         /\ req[p].pc = "handler" /\ req[p].token = Some(wallet[1].token)
         /\ req[p].admin[1].email = wallet[1].sub

\* a bearer token that passes request authentication in the current state:
\* present, a JWT signed with the secret, not expired, naming a stored account
ValidBearer(presented) ==
    /\ presented # None
    /\ ~Invalid(presented[1])

\* C9: a step writes a protected document only as the handler of a request
\* that passed request authentication, a request enters its handler only by
\* presenting a valid bearer token, and a request without one is answered 401
\* and writes nothing.
C9_WritesOnlyAuthenticated ==
    [][ /\ content' # content
           => \E p \in Workers :
                /\ req[p].pc = "handler" /\ req[p].admin # None
                /\ req'[p].pc = "done" /\ req'[p].status = 200
                /\ content' = [content EXCEPT ![req[p].op] = @ + 1]
        /\ \A p \in Workers :
             /\ (req[p].pc # "handler" /\ req'[p].pc = "handler") => AuthStep(p)
             /\ AuthStep(p)
                => /\ content' = content
                   /\ IF ValidBearer(req'[p].token)
                      THEN req'[p].pc = "handler" /\ req'[p].admin # None
                      ELSE req'[p].pc = "done" /\ req'[p].status = 401
      ]_vars

\* C9 witness: an authenticated upload request has written its file
C9_Witness ==
    /\ TotalWrites = 1
    /\ \E p \in Workers :
         /\ req[p].pc = "done" /\ req[p].op = "media" /\ req[p].status = 200
         /\ content["media"] = 1

\* the fields of an identity record that registration fixes
FixedFields == {"_id", "email", "password_hash", "role", "name", "is_active"}

\* C10: no step deletes an identity record or changes a field other than
\* last_login; last_login changes only in the step that completes a successful
\* login for that record's email; the store changes only in the completing
\* step of a successful register or login.
C10_RecordLifecycle ==
    [][ /\ Len(store') >= Len(store)
        /\ \A i \in 1..Len(store) :
             /\ DOMAIN store'[i] = DOMAIN store[i]
             /\ \A f \in FixedFields : store'[i][f] = store[i][f]
             /\ store'[i].last_login # store[i].last_login
                => \E p \in Workers :
                     /\ req[p].op = "login" /\ req[p].pc = "update"
                     /\ req'[p].pc = "done" /\ req'[p].status = 200
                     /\ req[p].email = Some(store[i].email)
                     /\ store'[i].last_login = Some(now)
        /\ store' # store
           => \E p \in Workers :
                /\ req[p].op \in {"register", "login"}
                /\ req'[p].pc = "done" /\ req'[p].status = 200
      ]_vars

\* C10 witness: of two accounts, one has logged in after the clock advanced
\* and the other never has, and a request has just been refused
C10_Witness ==
    /\ Len(store) = 2
    /\ store[1].last_login = None
    /\ store[2].last_login = Some(1)
    /\ \E p \in Workers : req[p].pc = "done" /\ req[p].status \in {400, 401}

====
